---- MODULE Spec2Model ----
(***************************************************************************)
(* Blue/green deployment switch controller (switch_deploy.py).             *)
(*                                                                         *)
(* One run of main() reads the active colour from active_container.txt,    *)
(* stops and removes the active app container, starts the inactive one,    *)
(* rewrites the nginx include file, makes sure nginx is up, waits until    *)
(* nginx can resolve the new upstream, validates and reloads nginx and     *)
(* finally records the new active colour.  Every external command may      *)
(* return zero or non-zero; the environment (the app instances finishing   *)
(* their initialisation) moves concurrently with the controller.           *)
(***************************************************************************)
EXTENDS Integers, Sequences, FiniteSets, TLC

VARIABLES
    pc,            \* position of the controller inside main(); "idle" between runs
    active,        \* local `active` of main()
    inactive,      \* local `inactive` of main()
    elapsed,       \* time.time() - start inside wait_for_dns_resolution
    exitCode,      \* exit status of the last finished run (NoExit while running)
    activeFile,    \* active_container.txt
    nginxConf,     \* ./nginx/includes/active.conf
    inst,          \* state of the containers app_blue / app_green
    nginxRunning,  \* the nginx container is up
    nginxLoaded,   \* the configuration the running nginx has loaded
    log,           \* external commands and file writes of the current run, in order
    fileBefore,    \* active_container.txt when the current run began
    confBefore,    \* active.conf when the current run began
    everReady,     \* colours whose present instance was ready at some time of the run
    runs,          \* number of finished runs
    allOk,         \* every finished run exited with 0
    initFile,      \* active_container.txt before the first run
    frame_queue,   \* app.py: frame_queue = queue.Queue(maxsize=1)
    cap_pc,        \* position of capture_thread
    frame,         \* capture_thread's local `frame` (frames are numbered as read)
    frames_read,   \* number of frames camera.read() has delivered
    inf_pc,        \* position of infer_thread
    inferred       \* the frames infer_thread has taken from the queue, in order

\* the state of the controller and its surroundings
cvars == <<pc, active, inactive, elapsed, exitCode, activeFile, nginxConf, inst,
           nginxRunning, nginxLoaded, log, fileBefore, confBefore, everReady,
           runs, allOk, initFile>>

vars == <<pc, active, inactive, elapsed, exitCode, activeFile, nginxConf, inst,
          nginxRunning, nginxLoaded, log, fileBefore, confBefore, everReady,
          runs, allOk, initFile,
          frame_queue, cap_pc, frame, frames_read, inf_pc, inferred>>

\* the state of the frame pipeline inside a running app instance
pvars == <<frame_queue, cap_pc, frame, frames_read, inf_pc, inferred>>

(***************************************************************************)
(* Bounds and program constants                                            *)
(***************************************************************************)
MaxRuns == 3

timeout == 30

Colors == {"blue", "green"}
NoColor == "none"
NoExit == 0 - 1
\* non-zero return codes an external command may produce
FailCodes == {2, 125}
RetCodes == {0} \cup FailCodes
\* whitespace as removed by str.strip()
Whitespace == {" ", "\n"}

(***************************************************************************)
(* Files.  A file is absent or holds a sequence of tokens.                 *)
(***************************************************************************)
Absent == [exists |-> FALSE, data |-> <<>>]
File(d) == [exists |-> TRUE, data |-> d]

RECURSIVE lstrip(_)
lstrip(s) == IF s # <<>> /\ Head(s) \in Whitespace THEN lstrip(Tail(s)) ELSE s

RECURSIVE rstrip(_)
rstrip(s) ==
    IF s # <<>> /\ s[Len(s)] \in Whitespace
    THEN rstrip(SubSeq(s, 1, Len(s) - 1))
    ELSE s

strip(s) == rstrip(lstrip(s))

get_active_no_default(f) ==
    IF f.exists /\ strip(f.data) \in {<<"blue">>, <<"green">>}
    THEN strip(f.data)[1]
    ELSE "blue"

get_active(f) ==
    IF f.exists /\ strip(f.data) \in {<<"blue">>, <<"green">>}
    THEN strip(f.data)[1]
    ELSE "green"

get_inactive_same(a) == a

get_inactive(a) == IF a = "green" THEN "blue" ELSE "green"

(***************************************************************************)
(* The nginx include file: one proxy_pass directive per location block.    *)
(***************************************************************************)
Locations == <<"/", "/socket.io/", "/video_feed", "/health">>

\* a template whose /health block names a fixed colour
render_fixed_health(target_color) ==
    [i \in 1..Len(Locations) |->
        [location |-> Locations[i],
         upstream |-> IF Locations[i] = "/health" THEN "green" ELSE target_color]]

render(target_color) ==
    [i \in 1..Len(Locations) |->
        [location |-> Locations[i], upstream |-> target_color]]

(***************************************************************************)
(* run_cmd raises CalledProcessError iff check is set and the command      *)
(* returned non-zero.                                                      *)
(***************************************************************************)
run_cmd_never_raises(check, rc) == FALSE

run_cmd_raises(check, rc) == check /\ rc # 0

Entry(cmd, arg, rc) == [cmd |-> cmd, arg |-> arg, rc |-> rc]

\* an exit that reports every failure with the generic code
Exit_generic(code) ==
    /\ pc' = "idle"
    /\ exitCode' = IF code = 0 THEN 0 ELSE 1
    /\ runs' = runs + 1
    /\ allOk' = (allOk /\ code = 0)

\* sys.exit(code) in the except clauses of main()
Exit(code) ==
    /\ pc' = "idle"
    /\ exitCode' = code
    /\ runs' = runs + 1
    /\ allOk' = (allOk /\ code = 0)

Continue(next) ==
    /\ pc' = next
    /\ UNCHANGED <<exitCode, runs, allOk>>

(***************************************************************************)
(* Effects of the external commands on the containers.                     *)
(***************************************************************************)
Running(c) == inst[c] # "stopped"

\* an instance that is stopped or re-created is a new instance: it has not been ready
Forget(c, st) == IF st \in {"stopped", "loading"} THEN everReady \ {c} ELSE everReady

SetInst(c, st) ==
    /\ inst' = [inst EXCEPT ![c] = st]
    /\ everReady' = Forget(c, st)

(***************************************************************************)
(* Initial states: at most one app instance is running; the state file,    *)
(* the include file and the proxy are whatever earlier use left behind.    *)
(***************************************************************************)
\* app/app.py lines 51, 77-80, 107-114: an empty queue, both threads at the
\* top of their loops
PipeInit ==
    /\ frame_queue = <<>>
    /\ cap_pc = "read"
    /\ frame = 0
    /\ frames_read = 0
    /\ inf_pc = "get"
    /\ inferred = <<>>

InitFiles ==
    {Absent, File(<<>>), File(<<"blue">>), File(<<"green">>),
     File(<<"green", "\n">>), File(<<"red">>)}

InitInsts ==
    {[c \in Colors |-> "stopped"]} \cup
    {[c \in Colors |-> IF c = r THEN st ELSE "stopped"] :
        r \in Colors, st \in {"loading", "ready", "failed"}}

Init ==
    /\ pc = "idle"
    /\ active = NoColor
    /\ inactive = NoColor
    /\ elapsed = 0
    /\ exitCode = NoExit
    /\ activeFile \in InitFiles
    /\ nginxConf \in {render("blue"), render("green"), <<>>}
    /\ inst \in InitInsts
    /\ nginxRunning \in BOOLEAN
    /\ nginxLoaded = IF nginxRunning THEN nginxConf ELSE <<>>
    /\ log = <<>>
    /\ fileBefore = activeFile
    /\ confBefore = nginxConf
    /\ everReady = {}
    /\ runs = 0
    /\ allOk = TRUE
    /\ initFile = activeFile
    /\ PipeInit

(***************************************************************************)
(* main()                                                                  *)
(***************************************************************************)
\* lines 131-135: a new invocation of the script
Main_Begin ==
    /\ pc = "idle"
    /\ runs < MaxRuns
    /\ active' = get_active(activeFile)
    /\ inactive' = get_inactive(get_active(activeFile))
    /\ pc' = "stop"
    /\ exitCode' = NoExit
    /\ elapsed' = 0
    /\ log' = <<>>
    /\ fileBefore' = activeFile
    /\ confBefore' = nginxConf
    /\ everReady' = {c \in Colors : inst[c] = "ready"}
    /\ UNCHANGED <<activeFile, nginxConf, inst, nginxRunning, nginxLoaded,
                   runs, allOk, initFile>>
    /\ UNCHANGED pvars

\* a stop aimed at the instance that is about to be started
StopOld_inactive ==
    /\ pc = "stop"
    /\ \E rc \in RetCodes :
        /\ log' = Append(log, Entry("stop", active, rc))
        /\ IF rc = 0
           THEN SetInst(inactive, "stopped")
           ELSE \E st \in {inst[inactive], "stopped"} : SetInst(inactive, st)
        /\ IF run_cmd_raises(TRUE, rc) THEN Exit(rc) ELSE Continue("rm")
    /\ UNCHANGED <<active, inactive, elapsed, activeFile, nginxConf,
                   nginxRunning, nginxLoaded, fileBefore, confBefore, initFile>>
    /\ UNCHANGED pvars

\* line 138: run_cmd("docker compose stop app_{active}")
StopOld ==
    /\ pc = "stop"
    /\ \E rc \in RetCodes :
        /\ log' = Append(log, Entry("stop", active, rc))
        /\ IF rc = 0
           THEN SetInst(active, "stopped")
           ELSE \E st \in {inst[active], "stopped"} : SetInst(active, st)
        /\ IF run_cmd_raises(TRUE, rc) THEN Exit(rc) ELSE Continue("rm")
    /\ UNCHANGED <<active, inactive, elapsed, activeFile, nginxConf,
                   nginxRunning, nginxLoaded, fileBefore, confBefore, initFile>>
    /\ UNCHANGED pvars

\* line 139: run_cmd("docker compose rm -f app_{active}"), then sleep STOP_DELAY
RemoveOld ==
    /\ pc = "rm"
    /\ \E rc \in RetCodes :
        /\ log' = Append(log, Entry("rm", active, rc))
        /\ IF run_cmd_raises(TRUE, rc) THEN Exit(rc) ELSE Continue("start")
    /\ UNCHANGED <<active, inactive, elapsed, activeFile, nginxConf, inst,
                   nginxRunning, nginxLoaded, fileBefore, confBefore,
                   everReady, initFile>>
    /\ UNCHANGED pvars

\* line 146: run_cmd("docker compose up -d --no-deps --build app_{inactive}"),
\* then sleep START_DELAY
StartNew ==
    /\ pc = "start"
    /\ \E rc \in RetCodes :
        /\ log' = Append(log, Entry("start", inactive, rc))
        /\ IF rc = 0
           THEN \E st \in (IF Running(inactive)
                           THEN {inst[inactive], "loading"}
                           ELSE {"loading"}) : SetInst(inactive, st)
           ELSE UNCHANGED <<inst, everReady>>
        /\ IF run_cmd_raises(TRUE, rc) THEN Exit(rc) ELSE Continue("open_conf")
    /\ UNCHANGED <<active, inactive, elapsed, activeFile, nginxConf,
                   nginxRunning, nginxLoaded, fileBefore, confBefore, initFile>>
    /\ UNCHANGED pvars

(***************************************************************************)
(* write_nginx_routing_config(inactive): open(..., "w") truncates the      *)
(* include file, the write then puts the rendered template in place.       *)
(***************************************************************************)
\* lines 155, 62: open(NGINX_CONF_PATH, "w")
WriteConf_Open ==
    /\ pc = "open_conf"
    /\ \/ /\ nginxConf' = <<>>
          /\ UNCHANGED log
          /\ Continue("write_conf")
       \/ /\ UNCHANGED nginxConf
          /\ log' = Append(log, Entry("write_conf", inactive, 1))
          /\ Exit(1)
    /\ UNCHANGED <<active, inactive, elapsed, activeFile, inst, nginxRunning,
                   nginxLoaded, fileBefore, confBefore, everReady, initFile>>
    /\ UNCHANGED pvars

\* lines 63-106: f.write(template) and the close at the end of the with block
WriteConf_Write ==
    /\ pc = "write_conf"
    /\ \/ /\ nginxConf' = render(inactive)
          /\ log' = Append(log, Entry("write_conf", inactive, 0))
          /\ Continue("up_nginx")
       \/ /\ UNCHANGED nginxConf
          /\ log' = Append(log, Entry("write_conf", inactive, 1))
          /\ Exit(1)
    /\ UNCHANGED <<active, inactive, elapsed, activeFile, inst, nginxRunning,
                   nginxLoaded, fileBefore, confBefore, everReady, initFile>>
    /\ UNCHANGED pvars

\* line 158: run_cmd("docker compose up -d nginx").  A proxy that is already up is
\* left alone; a stopped proxy is started and reads the include file as it is:
\* it either loads it or rejects it and exits.
UpNginx ==
    /\ pc = "up_nginx"
    /\ \E rc \in RetCodes :
        /\ log' = Append(log, Entry("up_nginx",
                                    IF nginxRunning THEN "was_up" ELSE "was_down", rc))
        /\ IF rc = 0 /\ ~nginxRunning
           THEN \/ nginxRunning' = TRUE /\ nginxLoaded' = nginxConf
                \/ UNCHANGED <<nginxRunning, nginxLoaded>>
           ELSE UNCHANGED <<nginxRunning, nginxLoaded>>
        /\ IF run_cmd_raises(TRUE, rc) THEN Exit(rc) ELSE Continue("wait_dns")
    /\ elapsed' = 0
    /\ UNCHANGED <<active, inactive, activeFile, nginxConf, inst, fileBefore,
                   confBefore, everReady, initFile>>
    /\ UNCHANGED pvars

(***************************************************************************)
(* wait_for_dns_resolution("app_{inactive}"), lines 43-57.  A probe is     *)
(* `docker exec nginx ping -c 1 -W 1 app_x`: it can only succeed while the *)
(* proxy container and the app container are both up.  A failed probe      *)
(* costs the ping's wait (up to 1 s) and the sleep of 1 s.  `elapsed` is   *)
(* local to the function and is cleared when it returns or raises.         *)
(***************************************************************************)
DnsProbeOk ==
    /\ pc = "wait_dns"
    /\ elapsed < timeout
    /\ nginxRunning /\ Running(inactive)
    /\ log' = Append(log, Entry("wait_dns", inactive, 0))
    /\ Continue("test_nginx")
    /\ elapsed' = 0
    /\ UNCHANGED <<active, inactive, activeFile, nginxConf, inst,
                   nginxRunning, nginxLoaded, fileBefore, confBefore,
                   everReady, initFile>>
    /\ UNCHANGED pvars

\* a probe loop whose clock does not advance
DnsProbeFail_no_clock ==
    /\ pc = "wait_dns"
    /\ elapsed < timeout
    /\ elapsed' = elapsed
    /\ Continue("wait_dns")
    /\ UNCHANGED <<active, inactive, activeFile, nginxConf, inst, nginxRunning,
                   nginxLoaded, log, fileBefore, confBefore, everReady, initFile>>
    /\ UNCHANGED pvars

DnsProbeFail ==
    /\ pc = "wait_dns"
    /\ elapsed < timeout
    /\ \E d \in {1, 2} : elapsed' = elapsed + d
    /\ Continue("wait_dns")
    /\ UNCHANGED <<active, inactive, activeFile, nginxConf, inst, nginxRunning,
                   nginxLoaded, log, fileBefore, confBefore, everReady, initFile>>
    /\ UNCHANGED pvars

\* line 57: raise RuntimeError, caught at line 174
DnsTimeout ==
    /\ pc = "wait_dns"
    /\ ~(elapsed < timeout)
    /\ log' = Append(log, Entry("wait_dns", inactive, 1))
    /\ Exit(1)
    /\ elapsed' = 0
    /\ UNCHANGED <<active, inactive, activeFile, nginxConf, inst,
                   nginxRunning, nginxLoaded, fileBefore, confBefore,
                   everReady, initFile>>
    /\ UNCHANGED pvars

(***************************************************************************)
(* reload_nginx(), lines 122-128                                           *)
(***************************************************************************)
test_nginx_config_ignored(rc) == TRUE

\* line 119: return result.returncode == 0
test_nginx_config(rc) == rc = 0

\* lines 124, 109-119, 128: `docker exec nginx nginx -t`; it cannot succeed
\* while the proxy container is down
TestNginxConfig ==
    /\ pc = "test_nginx"
    /\ \E rc \in (IF nginxRunning THEN RetCodes ELSE FailCodes) :
        /\ log' = Append(log, Entry("nginx_t", inactive, rc))
        /\ IF test_nginx_config(rc) THEN Continue("reload") ELSE Exit(1)
    /\ UNCHANGED <<active, inactive, elapsed, activeFile, nginxConf, inst,
                   nginxRunning, nginxLoaded, fileBefore, confBefore,
                   everReady, initFile>>
    /\ UNCHANGED pvars

\* line 125: run_cmd("docker exec nginx nginx -s reload")
ReloadCmd ==
    /\ pc = "reload"
    /\ \E rc \in (IF nginxRunning THEN RetCodes ELSE FailCodes) :
        /\ log' = Append(log, Entry("reload", inactive, rc))
        /\ nginxLoaded' = IF rc = 0 THEN nginxConf ELSE nginxLoaded
        /\ IF run_cmd_raises(TRUE, rc) THEN Exit(rc) ELSE Continue("open_active")
    /\ UNCHANGED <<active, inactive, elapsed, activeFile, nginxConf, inst,
                   nginxRunning, fileBefore, confBefore, everReady, initFile>>
    /\ UNCHANGED pvars

(***************************************************************************)
(* write_active(inactive), lines 38-40: the file is rewritten in place.    *)
(***************************************************************************)
\* lines 167, 39: open(ACTIVE_FILE, "w")
WriteActive_Open ==
    /\ pc = "open_active"
    /\ \/ /\ activeFile' = File(<<>>)
          /\ UNCHANGED log
          /\ Continue("write_active")
       \/ /\ UNCHANGED activeFile
          /\ log' = Append(log, Entry("write_active", inactive, 1))
          /\ Exit(1)
    /\ UNCHANGED <<active, inactive, elapsed, nginxConf, inst, nginxRunning,
                   nginxLoaded, fileBefore, confBefore, everReady, initFile>>
    /\ UNCHANGED pvars

\* a write of the colour that was active before the switch
WriteActive_Write_stale ==
    /\ pc = "write_active"
    /\ \/ /\ activeFile' = File(<<active>>)
          /\ log' = Append(log, Entry("write_active", inactive, 0))
          /\ Exit(0)
       \/ /\ UNCHANGED activeFile
          /\ log' = Append(log, Entry("write_active", inactive, 1))
          /\ Exit(1)
    /\ UNCHANGED <<active, inactive, elapsed, nginxConf, inst, nginxRunning,
                   nginxLoaded, fileBefore, confBefore, everReady, initFile>>
    /\ UNCHANGED pvars

\* lines 40, 169: f.write(active_color) and the close; main() then returns
WriteActive_Write ==
    /\ pc = "write_active"
    /\ \/ /\ activeFile' = File(<<inactive>>)
          /\ log' = Append(log, Entry("write_active", inactive, 0))
          /\ Exit(0)
       \/ /\ UNCHANGED activeFile
          /\ log' = Append(log, Entry("write_active", inactive, 1))
          /\ Exit(1)
    /\ UNCHANGED <<active, inactive, elapsed, nginxConf, inst, nginxRunning,
                   nginxLoaded, fileBefore, confBefore, everReady, initFile>>
    /\ UNCHANGED pvars

(***************************************************************************)
(* The environment: a started app instance runs init_inference() in a      *)
(* thread; it ends with is_ready = True or returns early on an error.      *)
(***************************************************************************)
InitInference(c) ==
    /\ inst[c] = "loading"
    /\ \E st \in {"ready", "failed"} :
        /\ inst' = [inst EXCEPT ![c] = st]
        /\ everReady' = IF st = "ready" /\ pc # "idle"
                        THEN everReady \cup {c}
                        ELSE everReady
    /\ UNCHANGED <<pc, active, inactive, elapsed, exitCode, activeFile,
                   nginxConf, nginxRunning, nginxLoaded, log, fileBefore,
                   confBefore, runs, allOk, initFile>>
    /\ UNCHANGED pvars

Next ==
    \/ Main_Begin
    \/ StopOld
    \/ RemoveOld
    \/ StartNew
    \/ WriteConf_Open
    \/ WriteConf_Write
    \/ UpNginx
    \/ DnsProbeOk
    \/ DnsProbeFail
    \/ DnsTimeout
    \/ TestNginxConfig
    \/ ReloadCmd
    \/ WriteActive_Open
    \/ WriteActive_Write
    \/ \E c \in Colors : InitInference(c)

Spec == Init /\ [][Next]_vars

(***************************************************************************)
(* A run can also be cut short from outside (SIGKILL, power loss): the     *)
(* process ends where it stands, no except clause runs, and the files and  *)
(* containers stay as they are at that moment.                             *)
(***************************************************************************)
CrashCode == 128 + 9

Crash ==
    /\ pc # "idle"
    /\ log' = Append(log, Entry("crash", pc, CrashCode))
    /\ Exit(CrashCode)
    /\ elapsed' = 0
    /\ UNCHANGED <<active, inactive, activeFile, nginxConf, inst, nginxRunning,
                   nginxLoaded, fileBefore, confBefore, everReady, initFile>>
    /\ UNCHANGED pvars

NextCrash == Next \/ Crash

(***************************************************************************)
(* Every external command returns and every statement of main() completes: *)
(* a run that has begun keeps taking steps.  Whether another run is begun, *)
(* and whether an instance ever finishes loading, is left open.            *)
(***************************************************************************)
ControllerStep ==
    \/ StopOld
    \/ RemoveOld
    \/ StartNew
    \/ WriteConf_Open
    \/ WriteConf_Write
    \/ UpNginx
    \/ DnsProbeOk
    \/ DnsProbeFail
    \/ DnsTimeout
    \/ TestNginxConfig
    \/ ReloadCmd
    \/ WriteActive_Open
    \/ WriteActive_Write

SpecFair == Init /\ [][Next]_vars /\ WF_vars(ControllerStep)

SpecCrash == Init /\ [][NextCrash]_vars

(***************************************************************************)
(* The frame pipeline of a running app instance (app/app.py):              *)
(* capture_thread reads frames and hands them to infer_thread through      *)
(* frame_queue.  Frames are numbered in the order camera.read() delivers   *)
(* them.  The two threads interleave between any two queue operations.     *)
(***************************************************************************)
MaxFrames == 4

\* frame_queue = queue.Queue(maxsize=1)
maxsize == 1

\* init_inference has started both threads of some instance
ThreadsStarted == \E c \in Colors : inst[c] = "ready"

\* queue.Queue.full(): 0 < maxsize <= qsize()
full(q) == 0 < maxsize /\ maxsize <= Len(q)

\* lines 82-100: ret, frame = camera.read() delivered a frame
CapRead ==
    /\ ThreadsStarted
    /\ cap_pc = "read"
    /\ frames_read < MaxFrames
    /\ frames_read' = frames_read + 1
    /\ frame' = frames_read + 1
    /\ cap_pc' = "full"
    /\ UNCHANGED <<frame_queue, inf_pc, inferred>>
    /\ UNCHANGED cvars

\* line 102: if frame_queue.full():
CapFull ==
    /\ cap_pc = "full"
    /\ cap_pc' = IF full(frame_queue) THEN "get_nowait" ELSE "put"
    /\ UNCHANGED <<frame_queue, frame, frames_read, inf_pc, inferred>>
    /\ UNCHANGED cvars

\* line 103: frame_queue.get_nowait() removes the oldest frame, or raises
\* queue.Empty when the queue holds none; nothing in capture_thread catches
\* it, so the thread ends
CapGetNowait ==
    /\ cap_pc = "get_nowait"
    /\ IF frame_queue # <<>>
         THEN /\ frame_queue' = Tail(frame_queue)
              /\ cap_pc' = "put"
         ELSE /\ frame_queue' = frame_queue
              /\ cap_pc' = "dead"
    /\ UNCHANGED <<frame, frames_read, inf_pc, inferred>>
    /\ UNCHANGED cvars

\* line 104: frame_queue.put(frame) waits while the queue is full
CapPut ==
    /\ cap_pc = "put"
    /\ ~full(frame_queue)
    /\ frame_queue' = Append(frame_queue, frame)
    /\ cap_pc' = "read"
    /\ UNCHANGED <<frame, frames_read, inf_pc, inferred>>
    /\ UNCHANGED cvars

\* lines 116-120: frame = frame_queue.get(timeout=1); on queue.Empty the loop
\* continues, which changes nothing
InfGet ==
    /\ ThreadsStarted
    /\ inf_pc = "get"
    /\ frame_queue # <<>>
    /\ inferred' = Append(inferred, Head(frame_queue))
    /\ frame_queue' = Tail(frame_queue)
    /\ inf_pc' = "infer"
    /\ UNCHANGED <<cap_pc, frame, frames_read>>
    /\ UNCHANGED cvars

\* lines 122-149: inference and annotation of the frame taken
InfDone ==
    /\ inf_pc = "infer"
    /\ inf_pc' = "get"
    /\ UNCHANGED <<frame_queue, cap_pc, frame, frames_read, inferred>>
    /\ UNCHANGED cvars

NextFrames ==
    \/ CapRead
    \/ CapFull
    \/ CapGetNowait
    \/ CapPut
    \/ InfGet
    \/ InfDone

\* the controller at rest after a switch: one instance ready and routed to
InitFrames ==
    /\ Init
    /\ nginxRunning
    /\ \E c \in Colors :
          /\ inst[c] = "ready"
          /\ nginxConf = render(c)
          /\ get_active(activeFile) = c

SpecFrames == InitFrames /\ [][NextFrames]_vars

(***************************************************************************)
(* The health route of app/app.py.  Lines 249-257 are commented out, so    *)
(* the application registers no /health route and Flask answers every      *)
(* request for it with 404 Not Found, whatever the state of the instance.  *)
(***************************************************************************)
NotFound == 400 + 4

health(st) == NotFound

(***************************************************************************)
(* Properties                                                              *)
(***************************************************************************)
Started == pc # "idle" \/ runs > 0
RunEnded == pc = "idle" /\ runs > 0
Issued(cmd) == {i \in 1..Len(log) : log[i].cmd = cmd}
Succeeded(cmd) == {i \in Issued(cmd) : log[i].rc = 0}
AllStepsOk == \A i \in 1..Len(log) : log[i].rc = 0

\* C1: camera exclusivity.  From any state with at most one of app_blue and
\* app_green running, whatever active_container.txt holds, no sequence of runs,
\* each succeeding or failing at any step, reaches a state where both run.
C1_CameraExclusivity == ~(Running("blue") /\ Running("green"))

\* a run after a failed one has started its new instance
C1_Witness ==
    /\ runs >= 1
    /\ ~allOk
    /\ Succeeded("start") # {}
    /\ Running(inactive)

\* C2: ordering.  In every run the stop and the remove of the active instance
\* have both returned zero, in that order, before the start of the inactive
\* instance is issued; after a failed stop or remove no start is issued.
C2_StopBeforeStart ==
    /\ \A i \in Issued("start") :
          /\ log[i].arg = inactive
          /\ \E j \in 1..(i - 1) : \E k \in (j + 1)..(i - 1) :
                /\ log[j] = Entry("stop", active, 0)
                /\ log[k] = Entry("rm", active, 0)
    /\ (\E i \in Issued("stop") \cup Issued("rm") : log[i].rc # 0)
          => Issued("start") = {}

\* the start command has been issued in the current run
C2_Witness == Issued("start") # {} /\ pc = "open_conf"

\* C3: PERSIST is last.  In every run active_container.txt is written at most
\* once, only after the proxy reload has succeeded, and no step follows the
\* write; after a run that failed at any step the file equals the file from
\* before the run.
C3_PersistLast ==
    /\ Cardinality(Issued("write_active")) <= 1
    /\ \A i \in Issued("write_active") :
          i = Len(log) /\ Succeeded("reload") # {}
    /\ activeFile # fileBefore => Succeeded("reload") # {}
    /\ (RunEnded /\ exitCode # 0) => activeFile = fileBefore

\* the steps of the run that make the proxy read active.conf: a reload, or the
\* start of a stopped proxy
ProxyLoads ==
    Issued("reload") \cup
    {i \in Succeeded("up_nginx") : log[i].arg = "was_down"}

\* C4: in every run the proxy is made to load (by a reload, or by being started)
\* a configuration naming colour c only after the instance of colour c has been
\* seen healthy in that run.
C4_HealthCheckedBeforeRouting ==
    ProxyLoads # {} => inactive \in everReady

\* C5: once the new instance has been started, as long as it has not been
\* healthy in the run, active.conf equals the file from before the run, no
\* reload has been issued and active_container.txt is unchanged; a run that
\* ends in that condition ends with a non-zero exit code and the new instance
\* left running.
C5_HealthTimeoutFails ==
    (Succeeded("start") # {} /\ inactive \notin everReady) =>
        /\ nginxConf = confBefore
        /\ Issued("reload") = {}
        /\ activeFile = fileBefore
        /\ RunEnded => (exitCode # 0 /\ Running(inactive))

\* C6: when `nginx -t` reports the configuration invalid, reload_nginx issues
\* no reload and the run ends FAILED (non-zero exit) without a write of
\* active_container.txt.
C6_InvalidConfigNoReload ==
    (\E i \in Issued("nginx_t") : log[i].rc # 0) =>
        /\ Issued("reload") = {}
        /\ Issued("write_active") = {}
        /\ activeFile = fileBefore
        /\ pc = "idle"
        /\ exitCode \notin {0, NoExit}

\* a run has ended on a failed validation
C6_Witness ==
    /\ RunEnded
    /\ \E i \in Issued("nginx_t") : log[i].rc # 0

\* C7: every step that makes the proxy read active.conf (a reload, or the start
\* of a stopped proxy by `docker compose up -d nginx`) comes after a successful
\* `nginx -t` of the file's current content, that is with no write of the file
\* in between.
C7_ProxyLoadsOnlyValidated ==
    \A i \in ProxyLoads :
        \E j \in Succeeded("nginx_t") :
            /\ j < i
            /\ \A k \in Issued("write_conf") : ~(j < k /\ k < i)

\* the toggle rule of the specification, applied n times
Toggle(c) == IF c = "blue" THEN "green" ELSE "blue"

RECURSIVE ToggleN(_, _)
ToggleN(n, c) == IF n = 0 THEN c ELSE Toggle(ToggleN(n - 1, c))

\* C8: after N runs that all succeeded, starting with active_container.txt
\* absent, the active colour on file is the toggle rule applied N times to the
\* default colour green: for N = 0 the file is absent and is read as green, for
\* N >= 1 the file holds exactly that colour.
C8_ToggleN ==
    (pc = "idle" /\ allOk /\ initFile = Absent) =>
        /\ get_active(activeFile) = ToggleN(runs, "green")
        /\ runs >= 1 => activeFile = File(<<ToggleN(runs, "green")>>)

\* two successful runs from an absent file
C8_Witness ==
    /\ pc = "idle"
    /\ allOk
    /\ initFile = Absent
    /\ runs >= 2

\* the prior states of active_container.txt that C9 speaks of
C9_Priors == {Absent, File(<<"blue">>), File(<<"green">>)}

NoActiveState(f) == ~f.exists \/ strip(f.data) \notin {<<"blue">>, <<"green">>}

Lifecycle == {"stop", "rm", "start"}

\* C11: fail-fast.  When a lifecycle command (stop, remove or start of an app
\* instance) returns non-zero, it is the last step of the run: it is not
\* issued again, nothing is written to active.conf or active_container.txt,
\* the proxy is neither started nor reloaded, and the run has ended FAILED.
C11_FailFast ==
    \A i \in 1..Len(log) :
        (log[i].cmd \in Lifecycle /\ log[i].rc # 0) =>
            /\ i = Len(log)
            /\ Cardinality(Issued(log[i].cmd)) = 1
            /\ nginxConf = confBefore
            /\ activeFile = fileBefore
            /\ pc = "idle"
            /\ exitCode \notin {0, NoExit}

\* a run has ended on a failed start, after a successful stop and remove
C11_Witness ==
    /\ RunEnded
    /\ Succeeded("rm") # {}
    /\ \E i \in Issued("start") : log[i].rc # 0

\* the steps whose failure is a non-zero return code of a sub-command
SubCommands == Lifecycle \cup {"up_nginx", "nginx_t", "reload"}

\* C12 as stated: a run exits with 0 iff every step through the write of
\* active_container.txt succeeded; a run that failed on a sub-command's
\* non-zero code (the validator's included) exits with that code.
C12_Original ==
    RunEnded =>
        /\ exitCode = 0 <=>
              (AllStepsOk /\ Succeeded("write_active") # {})
        /\ \A i \in 1..Len(log) :
              (log[i].cmd \in SubCommands /\ log[i].rc # 0) =>
                  exitCode = log[i].rc

\* the sub-commands that main() runs through run_cmd
CheckedCommands == Lifecycle \cup {"up_nginx", "reload"}

\* C12 amended: a run exits with 0 iff every step through the write of
\* active_container.txt succeeded; a run that failed on a non-zero code of a
\* command run through run_cmd (stop, remove, start, proxy start, reload) exits
\* with that code, and a run that failed otherwise (validation, reachability
\* timeout, file write) exits with the generic code 1.
C12_ExitCode ==
    RunEnded =>
        /\ exitCode = 0 <=>
              (AllStepsOk /\ Succeeded("write_active") # {})
        /\ \A i \in 1..Len(log) :
              log[i].rc # 0 =>
                  exitCode = IF log[i].cmd \in CheckedCommands
                             THEN log[i].rc
                             ELSE 1

\* a run has ended on a failed reload
C12_Witness ==
    /\ RunEnded
    /\ \E i \in Issued("reload") : log[i].rc # 0

\* the run was cut short while it stood at one of the given positions
CrashedAt(positions) ==
    /\ RunEnded
    /\ log # <<>>
    /\ log[Len(log)].cmd = "crash"
    /\ log[Len(log)].arg \in positions

\* C13: atomic persist.  After a crash at any point of write_active,
\* active_container.txt holds the complete old value or the complete new
\* value, never an empty or partial file; what the crash leaves behind is what
\* a reader sees at that point.
C13_AtomicPersist ==
    CrashedAt({"open_active", "write_active"}) =>
        activeFile \in {fileBefore, File(<<inactive>>)}

\* the run failed at the reachability wait or at the validation
RoutingGateFailed ==
    \E i \in Issued("wait_dns") \cup Issued("nginx_t") : log[i].rc # 0

\* C14: after a run in which the reachability wait timed out or `nginx -t`
\* rejected the rendered configuration, active.conf is identical to the file
\* from before the run and no reload has been issued.
C14_RoutingUnchanged ==
    (RunEnded /\ RoutingGateFailed) =>
        /\ nginxConf = confBefore
        /\ Issued("reload") = {}

\* the colours named as upstream by the directives of a configuration
Upstreams(conf) == {conf[i].upstream : i \in 1..Len(conf)}

\* C15: after every run that ends DONE, every directive of active.conf names
\* one and the same colour, active_container.txt holds that colour, and the
\* instance of that colour is the one whose start the run issued.
C15_RoutingAgreesWithState ==
    (RunEnded /\ exitCode = 0) =>
        \E c \in Colors :
            /\ Len(nginxConf) = Len(Locations)
            /\ Upstreams(nginxConf) = {c}
            /\ activeFile = File(<<c>>)
            /\ {log[i].arg : i \in Issued("start")} = {c}
            /\ Succeeded("start") # {}

\* a run that switched from green to blue has ended DONE
C15_Witness ==
    /\ RunEnded
    /\ exitCode = 0
    /\ fileBefore = File(<<"green">>)
    /\ confBefore = render("green")

\* C16: recoverability.  A run in which every step succeeds, made after an
\* earlier run failed or crashed at any step (the middle of write_active
\* included), ends with exactly one instance running and with active.conf and
\* active_container.txt both naming that instance.
C16_Recoverable ==
    (RunEnded /\ exitCode = 0 /\ ~allOk) =>
        \E c \in Colors :
            /\ {d \in Colors : Running(d)} = {c}
            /\ Upstreams(nginxConf) = {c}
            /\ activeFile = File(<<c>>)

\* the first run left active_container.txt truncated, the second one succeeded
C16_Witness ==
    /\ RunEnded
    /\ exitCode = 0
    /\ runs = 2
    /\ initFile = File(<<"blue">>)
    /\ fileBefore = File(<<>>)

\* C17 as stated: after any run that ends FAILED at least one of the two
\* instances is running and is the one the proxy's loaded configuration
\* routes to.
C17_Original ==
    (RunEnded /\ exitCode # 0) =>
        \E c \in Colors :
            /\ Running(c)
            /\ nginxRunning
            /\ Upstreams(nginxLoaded) = {c}

\* C17 amended: a failed switch is not rolled back.  After any run that ends
\* FAILED the old instance is down whenever its stop succeeded, the new
\* instance is up whenever its start succeeded, and at most one instance is
\* running; none need be.
C17_NoRollback ==
    (RunEnded /\ exitCode # 0) =>
        /\ Succeeded("stop") # {} => ~Running(active)
        /\ Succeeded("start") # {} => Running(inactive)
        /\ Cardinality({c \in Colors : Running(c)}) <= 1

\* a run that stopped the old instance and failed to start the new one has
\* left nothing running
C17_Witness ==
    /\ RunEnded
    /\ exitCode # 0
    /\ fileBefore = File(<<"blue">>)
    /\ Succeeded("stop") # {}
    /\ \E i \in Issued("start") : log[i].rc # 0
    /\ \A c \in Colors : ~Running(c)

\* C18: bounded waits.  wait_for_dns_resolution goes on to the validation at
\* the first probe that succeeds and raises only once the deadline has passed,
\* with no successful probe; and, every external command returning, every run
\* that has begun reaches DONE or FAILED.
C18_BoundedWaits ==
    /\ [][(pc = "wait_dns" /\ pc' = "test_nginx")
              => (log' = Append(log, Entry("wait_dns", inactive, 0)))]_vars
    /\ [][(pc = "wait_dns" /\ pc' = "idle")
              => (~(elapsed < timeout) /\ Succeeded("wait_dns") = {}
                    /\ exitCode' # 0)]_vars
    /\ [](pc = "wait_dns" => elapsed <= timeout + 1)
    /\ (pc # "idle") ~> (pc = "idle")

\* a run has ended on the reachability timeout
C18_Witness ==
    /\ RunEnded
    /\ \E i \in Issued("wait_dns") : log[i].rc # 0

(***************************************************************************)
(* C19: frame hand-off is a capacity-1, latest-value-wins channel: under   *)
(* every interleaving of capture_thread and infer_thread the queue never   *)
(* holds more than one frame, frames reach inference in capture order, and *)
(* the hand-off step of capture_thread (drop the old frame if the queue is *)
(* full, then put the new one) never blocks and never raises an exception  *)
(* that ends the thread.                                                   *)
(***************************************************************************)
CapacityOne == Len(frame_queue) <= maxsize

CaptureOrder ==
    \A i, j \in 1..Len(inferred) : i < j => inferred[i] < inferred[j]

PutNeverBlocks == cap_pc = "put" => ~full(frame_queue)

CaptureAlive == cap_pc # "dead"

C19_FrameHandoff ==
    /\ CapacityOne
    /\ CaptureOrder
    /\ PutNeverBlocks
    /\ CaptureAlive

(***************************************************************************)
(* C20: the health endpoint of a running instance reports ready (200)      *)
(* exactly when the instance has finished its initialisation, and not      *)
(* ready before that and after an initialisation failure.                  *)
(***************************************************************************)
C20_HealthDistinguishes ==
    \A c \in Colors :
        Running(c) => (health(inst[c]) = 200 <=> inst[c] = "ready")

====
